---- MODULE Spec2Model ----
(***************************************************************************)
(* Webcam capture / streaming pipeline of app/fastapi_app.py.              *)
(*                                                                         *)
(* The request handlers (webcam_start, webcam_stop, webcam_frame) and the  *)
(* generate_frames generators are coroutines of one asyncio event loop:    *)
(* between two awaits / yields a coroutine runs alone on the event-loop    *)
(* thread, and a blocking camera_lock.acquire() blocks that whole thread.  *)
(* Every webcam_stream_task runs in a thread of its own.                   *)
(***************************************************************************)
EXTENDS Integers, FiniteSets, Sequences, TLC

\* ------------------------------------------------------------------ bounds
MaxThreads  == 1      \* capture threads existing at once (Spec)
MaxSessions == 1      \* /api/webcam/stream requests ever opened
MaxFrames   == 2      \* frames the device ever delivers
MaxResults  == 2      \* Results objects model.predict returns for one image
MaxBoxes    == 2      \* boxes in one Results object

\* SpecRestart has room for one more capture thread than Spec
MaxRestartThreads == MaxThreads + 1

Threads     == 1..MaxRestartThreads
Sessions    == 1..MaxSessions

\* confidence argument of webcam_start, in tenths (default 0.5, line 230)
DefaultConfidence == 5
Confidences == {DefaultConfidence, 9}

VARIABLES
    camera_active,   \* global flag (line 36)
    current_frame,   \* global slot (line 37)
    camera_lock,     \* holder of the threading.Lock (line 38)
    model_loaded,    \* model is not None (lines 41-46)
    pc,              \* position of each webcam_stream_task thread
    conf,            \* confidence argument bound to each thread
    frame,           \* local variable `frame` of each thread
    cap_open,        \* threads whose cv2.VideoCapture is open
    capSeq,          \* number of frames delivered by cap.read() so far
    loopThread,      \* what the event-loop thread is busy with
    pcS,             \* position of each generate_frames generator
    lastEmit,        \* frame carried by the last chunk of each session
    pcF,             \* position of the webcam_frame handler
    frameRes,        \* last answer of webcam_frame
    lastCtl,         \* answer of the last webcam_start / webcam_stop call
    fresh,           \* a frame was published since the last successful start
    stopReq,         \* threads alive at a stop() and not yet back at line 201
    results,         \* process_detection: what model.predict returned
    response         \* process_detection: the DetectionResponse, once built

vars == << camera_active, current_frame, camera_lock, model_loaded, pc, conf,
           frame, cap_open, capSeq, loopThread, pcS, lastEmit,
           pcF, frameRes, lastCtl, fresh, stopReq, results, response >>

detVars == << results, response >>

\* ------------------------------------------------------------ values
NoFrame == [gen |-> 0, cap |-> 0, conf |-> 0]       \* None
Free    == << "free", 0 >>
Idle    == << "idle", 0 >>
ThreadId(t)  == << "T", t >>
SessionId(s) == << "S", s >>
FrameId      == << "F", 0 >>

\* generation of the slot: number of publishes so far (the slot is only
\* ever assigned by a publish, each of which carries the next number)
Generation == current_frame.gen

\* a thread is alive: it has opened the source and not left its loop
InLoop(t) == pc[t] \in {"test", "raising", "acquire", "write"}
Alive     == { t \in Threads : InLoop(t) }

\* ------------------------------------------------------------ the lock
\* an acquire that does not wait for the holder
LockFreeBug == TRUE

LockFree == camera_lock = Free

\* -------------------------------------------------------- process_detection
\* lines 149-191.  A box is what lines 176-178 read of it: its class and its
\* confidence (in tenths); bbox and bbox_pixels are copied from the box the
\* same way and the image is not part of the answer's text.  r.boxes is a
\* sequence of boxes or None (has = FALSE).
Boxes == { [cls |-> 0, conf |-> 5], [cls |-> 1, conf |-> 9] }

BoxSeqs == UNION { [1..n -> Boxes] : n \in 0..MaxBoxes }

ResultSet == { [has |-> FALSE, boxes |-> << >>] }
                 \cup { [has |-> TRUE, boxes |-> b] : b \in BoxSeqs }

DetectorOutputs == UNION { [1..n -> ResultSet] : n \in 0..MaxResults }

\* line 176: model.names[int(box.cls)]
names(cls) == << "name", cls >>

\* lines 175-181
Detection(box) ==
    [class |-> names(box.cls), class_id |-> box.cls, confidence |-> box.conf]

\* lines 174-182: for box in boxes: detections.append(detection)
RECURSIVE AppendBoxes(_, _)
AppendBoxes(detections, boxes) ==
    IF boxes = << >>
    THEN detections
    ELSE AppendBoxes(Append(detections, Detection(Head(boxes))), Tail(boxes))

\* lines 168-182: for r in results: if boxes is not None: ...
RECURSIVE Collect(_, _)
Collect(detections, rs) ==
    IF rs = << >>
    THEN detections
    ELSE Collect(IF Head(rs).has
                 THEN AppendBoxes(detections, Head(rs).boxes)
                 ELSE detections,
                 Tail(rs))

\* a message that always counts ("0 objets détectés")
MessageBug(detections) ==
    [n |-> Len(detections), text |-> "objets détectés"]

\* line 189: the count and "objets détectés", or the fixed text (n is then
\* not part of the text)
Message(detections) ==
    IF detections # << >>
    THEN [n |-> Len(detections), text |-> "objets détectés"]
    ELSE [n |-> 0, text |-> "Aucun objet détecté"]

\* lines 184-190
process_detection(rs) ==
    LET detections == Collect(<< >>, rs)
    IN  [success    |-> TRUE,
         detections |-> detections,
         count      |-> Len(detections),
         message    |-> Message(detections)]

\* no DetectionResponse built yet
NoResponse ==
    [success |-> FALSE, detections |-> << >>, count |-> 0,
     message |-> [n |-> 0, text |-> ""]]

\* ------------------------------------------------------------ Init
InitPipeline ==
    /\ camera_active = FALSE
    /\ current_frame = NoFrame
    /\ camera_lock = Free
    /\ model_loaded \in BOOLEAN
    /\ pc = [t \in Threads |-> "none"]
    /\ conf = [t \in Threads |-> 0]
    /\ frame = [t \in Threads |-> NoFrame]
    /\ cap_open = {}
    /\ capSeq = 0
    /\ loopThread = Idle
    /\ pcS = [s \in Sessions |-> "none"]
    /\ lastEmit = [s \in Sessions |-> NoFrame]
    /\ pcF = "idle"
    /\ frameRes = "none"
    /\ lastCtl = "none"
    /\ fresh = FALSE
    /\ stopReq = {}

\* no detection request in hand
Init ==
    /\ InitPipeline
    /\ results = << >>
    /\ response = NoResponse

\* a detection request whose image the detector has answered (line 159);
\* the handlers call process_detection only with a model (lines 106, 130)
InitDetect ==
    /\ InitPipeline
    /\ model_loaded
    /\ results \in DetectorOutputs
    /\ response = NoResponse

\* ------------------------------------------------------------ webcam_start
\* lines 229-250; runs without suspension on the event loop.  The new
\* thread takes the first unused place among 1..maxT.
\* a start guard that looks for a running loop instead of the flag
AlreadyActiveBug == camera_active /\ Alive # {}

AlreadyActive == camera_active

\* a start that does not look whether the model was loaded
ModelMissingBug == FALSE

\* lines 237-238: model is None
ModelMissing == ~model_loaded

Unused(maxT) == { t \in 1..maxT : pc[t] = "none" }
NewThread(maxT) == CHOOSE t \in Unused(maxT) : \A u \in Unused(maxT) : t <= u

webcam_start(c, maxT) ==
    /\ loopThread = Idle
    /\ IF AlreadyActive
       THEN /\ lastCtl' = "already_active"
            /\ UNCHANGED << camera_active, pc, conf, fresh >>
       ELSE IF ModelMissing
       THEN /\ lastCtl' = "error"
            /\ UNCHANGED << camera_active, pc, conf, fresh >>
       ELSE /\ Unused(maxT) # {}
            /\ camera_active' = TRUE
            /\ pc' = [pc EXCEPT ![NewThread(maxT)] = "spawned"]
            /\ conf' = [conf EXCEPT ![NewThread(maxT)] = c]
            /\ fresh' = FALSE
            /\ lastCtl' = "started"
    /\ UNCHANGED << current_frame, camera_lock, model_loaded, frame, cap_open,
                    capSeq, loopThread, pcS, lastEmit, pcF, frameRes,
                    stopReq >>
    /\ UNCHANGED detVars

\* ------------------------------------------------------------ webcam_stop
\* lines 252-261; the mutant flips the flag instead of lowering it
webcam_stopBug ==
    /\ loopThread = Idle
    /\ camera_active' = ~camera_active
    /\ lastCtl' = "stopped"
    /\ stopReq' = stopReq \cup Alive
    /\ UNCHANGED << current_frame, camera_lock, model_loaded, pc, conf, frame,
                    cap_open, capSeq, loopThread, pcS, lastEmit, pcF, frameRes,
                    fresh >>
    /\ UNCHANGED detVars

webcam_stop ==
    /\ loopThread = Idle
    /\ camera_active' = FALSE
    /\ lastCtl' = "stopped"
    /\ stopReq' = stopReq \cup Alive
    /\ UNCHANGED << current_frame, camera_lock, model_loaded, pc, conf, frame,
                    cap_open, capSeq, loopThread, pcS, lastEmit, pcF, frameRes,
                    fresh >>
    /\ UNCHANGED detVars

\* ------------------------------------------------------------ webcam_status
\* lines 263-269: a pure read of the flag
webcam_status ==
    [active |-> camera_active,
     message |-> IF camera_active THEN "Webcam active" ELSE "Webcam inactive"]

\* ----------------------------------------------------- webcam_stream_task
\* line 199: cap = cv2.VideoCapture(...)
CapOpen(t) ==
    /\ pc[t] = "spawned"
    /\ pc' = [pc EXCEPT ![t] = "test"]
    /\ cap_open' = cap_open \cup {t}
    /\ UNCHANGED << camera_active, current_frame, camera_lock, model_loaded,
                    conf, frame, capSeq, loopThread, pcS, lastEmit, pcF,
                    frameRes, lastCtl, fresh, stopReq >>
    /\ UNCHANGED detVars

\* One pass from line 201 to line 212.  Only the test of camera_active
\* touches shared state; cap.read(), cv2.resize, model.predict and r.plot
\* work on the thread's own data, so the pass is one step up to the next
\* shared access: the lock of line 214, the handler of line 227, or the exit.

\* a loop that never looks at the flag (while True)
LoopTestBug == TRUE

\* line 201: while camera_active, read once at the head of each pass
LoopTest == camera_active

\* a detector called without the caller's confidence (the default applies)
BoundConfidenceBug(t) == DefaultConfidence

\* line 208: conf=confidence, the argument the thread was created with
\* (line 241)
BoundConfidence(t) == conf[t]

\* line 201 with the flag down: the loop ends, the source is released
\* (lines 222-223) and the thread is over
CapExit(t) ==
    /\ pc[t] = "test"
    /\ ~LoopTest
    /\ pc' = [pc EXCEPT ![t] = "none"]
    /\ conf' = [conf EXCEPT ![t] = 0]
    /\ cap_open' = cap_open \ {t}
    /\ stopReq' = stopReq \ {t}
    /\ UNCHANGED << camera_active, current_frame, camera_lock, model_loaded,
                    frame, capSeq, loopThread, pcS, lastEmit, pcF, frameRes,
                    lastCtl, fresh >>
    /\ UNCHANGED detVars

\* lines 201-212: flag up, ret true; resize, predict with the thread's
\* confidence, plot
CapReadOk(t) ==
    /\ pc[t] = "test"
    /\ LoopTest
    /\ capSeq < MaxFrames
    /\ capSeq' = capSeq + 1
    /\ frame' = [frame EXCEPT ![t] = [gen |-> 0, cap |-> capSeq + 1,
                                      conf |-> BoundConfidence(t)]]
    /\ pc' = [pc EXCEPT ![t] = "acquire"]
    /\ stopReq' = stopReq \ {t}
    /\ UNCHANGED << camera_active, current_frame, camera_lock, model_loaded,
                    conf, cap_open, loopThread, pcS, lastEmit, pcF, frameRes,
                    lastCtl, fresh >>
    /\ UNCHANGED detVars

\* lines 201-202, 216-217: flag up, ret false; break, then the source is
\* released (lines 222-223) and the thread is over
CapReadFail(t) ==
    /\ pc[t] = "test"
    /\ LoopTest
    /\ pc' = [pc EXCEPT ![t] = "none"]
    /\ conf' = [conf EXCEPT ![t] = 0]
    /\ cap_open' = cap_open \ {t}
    /\ stopReq' = stopReq \ {t}
    /\ UNCHANGED << camera_active, current_frame, camera_lock, model_loaded,
                    frame, capSeq, loopThread, pcS, lastEmit, pcF, frameRes,
                    lastCtl, fresh >>
    /\ UNCHANGED detVars

\* lines 201-212: flag up, and one of lines 202-212 raises
CapReadRaise(t) ==
    /\ pc[t] = "test"
    /\ LoopTest
    /\ pc' = [pc EXCEPT ![t] = "raising"]
    /\ stopReq' = stopReq \ {t}
    /\ UNCHANGED << camera_active, current_frame, camera_lock, model_loaded,
                    conf, frame, cap_open, capSeq, loopThread, pcS, lastEmit,
                    pcF, frameRes, lastCtl, fresh >>
    /\ UNCHANGED detVars

\* line 214: with camera_lock (blocking acquire)
CapAcquire(t) ==
    /\ pc[t] = "acquire"
    /\ LockFree
    /\ camera_lock' = ThreadId(t)
    /\ pc' = [pc EXCEPT ![t] = "write"]
    /\ UNCHANGED << camera_active, current_frame, model_loaded, conf, frame,
                    cap_open, capSeq, loopThread, pcS, lastEmit, pcF, frameRes,
                    lastCtl, fresh, stopReq >>
    /\ UNCHANGED detVars

\* line 215: current_frame = frame, then the lock is released; the thread
\* then waits (line 220, cv2.waitKey(100)) and is back at line 201
Published(t) == [frame[t] EXCEPT !.gen = Generation + 1]

CapPublish(t) ==
    /\ pc[t] = "write"
    /\ current_frame' = Published(t)
    /\ camera_lock' = Free
    /\ frame' = [frame EXCEPT ![t] = NoFrame]    \* dead until the next read
    /\ fresh' = TRUE
    /\ pc' = [pc EXCEPT ![t] = "test"]
    /\ UNCHANGED << camera_active, model_loaded, conf, cap_open, capSeq,
                    loopThread, pcS, lastEmit, pcF, frameRes, lastCtl,
                    stopReq >>
    /\ UNCHANGED detVars

\* lines 225-227: the handler of an exception raised by line 199 or by
\* lines 202-212 (no lock is held there); it only resets the flag, and the
\* thread is over: cap.release() is not called, the capture object goes
\* away with the thread's frame
CapRaise(t) ==
    /\ pc[t] \in {"spawned", "raising"}
    /\ camera_active' = FALSE
    /\ pc' = [pc EXCEPT ![t] = "none"]
    /\ conf' = [conf EXCEPT ![t] = 0]
    /\ cap_open' = cap_open \ {t}
    /\ stopReq' = stopReq \ {t}
    /\ UNCHANGED << current_frame, camera_lock, model_loaded, frame, capSeq,
                    loopThread, pcS, lastEmit, pcF, frameRes, lastCtl, fresh >>
    /\ UNCHANGED detVars

\* ------------------------------------------------------------ webcam_stream
\* lines 271-290: the handler only builds the response
StreamOpen(s) ==
    /\ loopThread = Idle
    /\ pcS[s] = "none"
    /\ pcS' = [pcS EXCEPT ![s] = "ready"]
    /\ UNCHANGED << camera_active, current_frame, camera_lock, model_loaded,
                    pc, conf, frame, cap_open, capSeq, loopThread, lastEmit,
                    pcF, frameRes, lastCtl, fresh, stopReq >>
    /\ UNCHANGED detVars

\* line 275: while camera_active (first iteration, or after the sleep of
\* line 285); the generator then goes on to line 276 without suspending
StreamTest(s) ==
    /\ loopThread = Idle
    /\ pcS[s] \in {"ready", "sleep"}
    /\ IF camera_active
       THEN /\ pcS' = [pcS EXCEPT ![s] = "acquire"]
            /\ loopThread' = SessionId(s)
       ELSE /\ pcS' = [pcS EXCEPT ![s] = "done"]
            /\ UNCHANGED loopThread
    /\ UNCHANGED << camera_active, current_frame, camera_lock, model_loaded,
                    pc, conf, frame, cap_open, capSeq, lastEmit, pcF, frameRes,
                    lastCtl, fresh, stopReq >>
    /\ UNCHANGED detVars

\* line 276: with camera_lock (blocking acquire on the event-loop thread)
StreamAcquire(s) ==
    /\ pcS[s] = "acquire"
    /\ LockFree
    /\ camera_lock' = SessionId(s)
    /\ pcS' = [pcS EXCEPT ![s] = "locked"]
    /\ UNCHANGED << camera_active, current_frame, model_loaded, pc, conf,
                    frame, cap_open, capSeq, loopThread, lastEmit, pcF,
                    frameRes, lastCtl, fresh, stopReq >>
    /\ UNCHANGED detVars

\* lines 277-285: a frame is there: encode it and yield the chunk, inside
\* the with block; no frame: leave the with block and sleep
StreamRead(s) ==
    /\ pcS[s] = "locked"
    /\ loopThread' = Idle
    /\ IF current_frame # NoFrame
       THEN /\ lastEmit' = [lastEmit EXCEPT ![s] = current_frame]
            /\ pcS' = [pcS EXCEPT ![s] = "yielded"]
            /\ UNCHANGED camera_lock
       ELSE /\ camera_lock' = Free
            /\ pcS' = [pcS EXCEPT ![s] = "sleep"]
            /\ UNCHANGED lastEmit
    /\ UNCHANGED << camera_active, current_frame, model_loaded, pc, conf,
                    frame, cap_open, capSeq, pcF, frameRes, lastCtl, fresh,
                    stopReq >>
    /\ UNCHANGED detVars

\* the consumer asks for the next chunk: the generator resumes after the
\* yield of line 282, leaves the with block and sleeps (line 285)
StreamResume(s) ==
    /\ loopThread = Idle
    /\ pcS[s] = "yielded"
    /\ camera_lock' = Free
    /\ pcS' = [pcS EXCEPT ![s] = "sleep"]
    /\ UNCHANGED << camera_active, current_frame, model_loaded, pc, conf,
                    frame, cap_open, capSeq, loopThread, lastEmit, pcF,
                    frameRes, lastCtl, fresh, stopReq >>
    /\ UNCHANGED detVars

\* ------------------------------------------------------------ webcam_frame
\* lines 295-296, then the blocking acquire of line 298
\* webcam_frame without the check of lines 295-296
NotActiveBug == FALSE

NotActive == ~camera_active

FrameCall ==
    /\ loopThread = Idle
    /\ pcF = "idle"
    /\ IF NotActive
       THEN /\ frameRes' = "NotActive"
            /\ UNCHANGED << pcF, loopThread >>
       ELSE /\ pcF' = "acquire"
            /\ loopThread' = FrameId
            /\ frameRes' = "pending"
    /\ UNCHANGED << camera_active, current_frame, camera_lock, model_loaded,
                    pc, conf, frame, cap_open, capSeq, pcS, lastEmit, lastCtl,
                    fresh, stopReq >>
    /\ UNCHANGED detVars

FrameAcquire ==
    /\ pcF = "acquire"
    /\ LockFree
    /\ camera_lock' = FrameId
    /\ pcF' = "locked"
    /\ UNCHANGED << camera_active, current_frame, model_loaded, pc, conf,
                    frame, cap_open, capSeq, loopThread, pcS, lastEmit,
                    frameRes, lastCtl, fresh, stopReq >>
    /\ UNCHANGED detVars

\* lines 299-309
FrameRead ==
    /\ pcF = "locked"
    /\ camera_lock' = Free
    /\ loopThread' = Idle
    /\ pcF' = "idle"
    /\ IF current_frame = NoFrame
       THEN /\ frameRes' = "NoFrameYet"
       ELSE /\ frameRes' = "image"
    /\ UNCHANGED << camera_active, current_frame, model_loaded, pc, conf,
                    frame, cap_open, capSeq, pcS, lastEmit, lastCtl, fresh,
                    stopReq >>
    /\ UNCHANGED detVars

\* ------------------------------------------------------------ Next
\* the steps of the capture threads, the generators and webcam_frame
Run ==
    \/ \E t \in Threads : CapOpen(t)
    \/ \E t \in Threads : CapExit(t)
    \/ \E t \in Threads : CapReadOk(t)
    \/ \E t \in Threads : CapReadFail(t)
    \/ \E t \in Threads : CapReadRaise(t)
    \/ \E t \in Threads : CapAcquire(t)
    \/ \E t \in Threads : CapPublish(t)
    \/ \E t \in Threads : CapRaise(t)
    \/ \E s \in Sessions : StreamOpen(s)
    \/ \E s \in Sessions : StreamTest(s)
    \/ \E s \in Sessions : StreamAcquire(s)
    \/ \E s \in Sessions : StreamRead(s)
    \/ \E s \in Sessions : StreamResume(s)
    \/ FrameCall
    \/ FrameAcquire
    \/ FrameRead

\* clients that call webcam_start with the default confidence, MaxThreads
\* successful starts
Next ==
    \/ webcam_start(DefaultConfidence, MaxThreads)
    \/ webcam_stop
    \/ Run

Spec == Init /\ [][Next]_vars

\* clients that choose the confidence, one more successful start
NextRestart ==
    \/ \E c \in Confidences : webcam_start(c, MaxRestartThreads)
    \/ webcam_stop
    \/ Run

SpecRestart == Init /\ [][NextRestart]_vars

\* the control calls with a confidence chosen by the client, and the capture
\* threads they start
RunCapture ==
    \/ \E t \in Threads : CapOpen(t)
    \/ \E t \in Threads : CapExit(t)
    \/ \E t \in Threads : CapReadOk(t)
    \/ \E t \in Threads : CapReadFail(t)
    \/ \E t \in Threads : CapReadRaise(t)
    \/ \E t \in Threads : CapAcquire(t)
    \/ \E t \in Threads : CapPublish(t)
    \/ \E t \in Threads : CapRaise(t)

NextConfidence ==
    \/ \E c \in Confidences : webcam_start(c, MaxThreads)
    \/ webcam_stop
    \/ RunCapture

SpecConfidence == Init /\ [][NextConfidence]_vars

\* one detection request: lines 161-190 build the answer from the detector's
\* output
Detect ==
    /\ response = NoResponse
    /\ response' = process_detection(results)
    /\ UNCHANGED << camera_active, current_frame, camera_lock, model_loaded,
                    pc, conf, frame, cap_open, capSeq, loopThread, pcS,
                    lastEmit, pcF, frameRes, lastCtl, fresh, stopReq,
                    results >>

NextDetect == Detect

SpecDetect == InitDetect /\ [][NextDetect]_vars

\* a working device and detector: every read returns a frame and nothing
\* raises.  The capture threads are scheduled, the event loop runs the
\* coroutines that are ready, and a waiting acquire gets a lock that keeps
\* being released.  When clients call is up to them; a client that was
\* handed a chunk takes it, so that the generator is resumed once the event
\* loop is free (Clients).
RunWorking ==
    \/ \E t \in Threads : CapOpen(t)
    \/ \E t \in Threads : CapExit(t)
    \/ \E t \in Threads : CapReadOk(t)
    \/ \E t \in Threads : CapAcquire(t)
    \/ \E t \in Threads : CapPublish(t)
    \/ \E s \in Sessions : StreamOpen(s)
    \/ \E s \in Sessions : StreamTest(s)
    \/ \E s \in Sessions : StreamAcquire(s)
    \/ \E s \in Sessions : StreamRead(s)
    \/ \E s \in Sessions : StreamResume(s)
    \/ FrameCall
    \/ FrameAcquire
    \/ FrameRead

NextWorking ==
    \/ webcam_start(DefaultConfidence, MaxThreads)
    \/ webcam_stop
    \/ RunWorking

Scheduling ==
    /\ \A t \in Threads :
          /\ WF_vars(CapOpen(t))
          /\ WF_vars(CapExit(t))
          /\ WF_vars(CapReadOk(t))
          /\ SF_vars(CapAcquire(t))
          /\ WF_vars(CapPublish(t))
    /\ \A s \in Sessions :
          /\ WF_vars(StreamTest(s))
          /\ SF_vars(StreamAcquire(s))
          /\ WF_vars(StreamRead(s))
    /\ SF_vars(FrameAcquire)
    /\ WF_vars(FrameRead)

Clients == \A s \in Sessions : WF_vars(StreamResume(s))

SpecWorking == Init /\ [][NextWorking]_vars /\ Scheduling /\ Clients

\* the same scheduling with a device and a detector that may fail
SpecScheduled == Init /\ [][Next]_vars /\ Scheduling /\ Clients

\* ============================================================ claims
\* a webcam_start call with any confidence
StartCall == \E c \in Confidences : webcam_start(c, MaxRestartThreads)

\* session s hands a chunk to its client in this step
Emits(s) == pcS[s] = "locked" /\ pcS'[s] = "yielded"

\* webcam_frame reads the slot and answers in this step
FrameAnswers == pcF = "locked" /\ pcF' = "idle"

\* C1: in every reachable state at most one capture loop is alive (has
\* opened the source and not left its loop), also when a start() follows a
\* stop() that the running loop has not observed yet.
C1_SingleProducer == Cardinality(Alive) <= 1

C3_DeviceFailureStops ==
    [][ \A t \in Threads : CapReadFail(t) => ~camera_active' ]_vars

\* C4: after a stop() and until the next start(), every frame() call answers
\* NotActive without reading the slot, and no session emits a chunk.
C4_NothingServedAfterStop ==
    [][ lastCtl = "stopped"
        => /\ FrameCall => frameRes' = "NotActive"
           /\ pcF' = "idle"
           /\ \A s \in Sessions : ~Emits(s) /\ pcS'[s] # "locked" ]_vars

C4_Witness ==
    /\ lastCtl = "stopped"
    /\ current_frame # NoFrame
    /\ frameRes = "NotActive"
    /\ \E s \in Sessions : pcS[s] = "done" /\ lastEmit[s] # NoFrame

\* C5: from a successful start() until the first publish after it, the slot
\* is absent: frame() answers NoFrameYet and no session emits a chunk.
C5_SlotResetOnStop ==
    [][ ~fresh
        => /\ FrameAnswers => frameRes' = "NoFrameYet"
           /\ \A s \in Sessions : ~Emits(s) ]_vars

\* C6: two consecutive chunks of one session never carry the same
\* generation.
C6_NoDuplicateEmission ==
    [][ \A s \in Sessions :
            Emits(s) => lastEmit'[s].gen # lastEmit[s].gen ]_vars

\* C7: a session never holds the lock while it is suspended, and the
\* event-loop thread never waits for a lock held by a suspended session.
Suspended(s) == pcS[s] \in {"yielded", "sleep"}

C7_SessionsNeverBlock ==
    /\ \A s \in Sessions : Suspended(s) => camera_lock # SessionId(s)
    /\ ~ \E s \in Sessions :
           /\ Suspended(s)
           /\ camera_lock = SessionId(s)
           /\ loopThread # Idle

\* C8: the publish of a capture loop and the reads of the slot by a session
\* or by frame() exclude each other: whoever is inside holds the lock, so at
\* most one of them is inside at a time.
Writers == { t \in Threads : pc[t] = "write" }
Readers == { s \in Sessions : pcS[s] \in {"locked", "yielded"} }

Inside ==
    { ThreadId(t) : t \in Writers }
    \cup { SessionId(s) : s \in Readers }
    \cup (IF pcF = "locked" THEN {FrameId} ELSE {})

C8_AtomicPublish ==
    /\ Cardinality(Inside) <= 1
    /\ \A h \in Inside : camera_lock = h

C8_Witness ==
    /\ \E t \in Threads : pc[t] = "acquire"
    /\ \E s \in Sessions : pcS[s] = "locked"

\* C9: the chunks of a session come in order: a chunk never carries a lower
\* generation, nor a frame captured earlier, than the chunk before it.
C9_FramesInOrder ==
    [][ \A s \in Sessions :
            Emits(s) => /\ lastEmit'[s].gen >= lastEmit[s].gen
                        /\ lastEmit'[s].cap >= lastEmit[s].cap ]_vars

\* C10: a capture loop that was alive at a stop() leaves its loop at its
\* next iteration boundary (line 201) and releases its source.
C10_StopObserved ==
    [][ \A t \in stopReq :
            pc[t] = "test" /\ pc'[t] # "test"
            => pc'[t] = "none" /\ t \notin cap_open' ]_vars

\* C11: when a capture loop ends in its exception handler, its source is
\* released, the slot is cleared to absent and the pipeline state is Stopped.
C11_ErrorCleansUp ==
    [][ \A t \in Threads :
            CapRaise(t) => /\ t \notin cap_open'
                           /\ current_frame' = NoFrame
                           /\ ~camera_active' ]_vars

\* C12: on a working device a successful start() raises the flag at once
\* (status() reports Running) and, unless a stop() comes, the capture loop
\* eventually publishes a frame.
C12_StartPublishes ==
    (camera_active /\ ~fresh /\ capSeq < MaxFrames)
        ~> (fresh \/ ~camera_active)

\* C13: a session that finds the pipeline not running at its test ends
\* there without a chunk and stays ended, and a session that is open while
\* the pipeline is not running eventually ends, unless the pipeline is
\* started again.
Open(s) == pcS[s] \notin {"none", "done"}

C13_SessionsEnd ==
    /\ [][ \A s \in Sessions :
              /\ (StreamTest(s) /\ ~camera_active) => pcS'[s] = "done"
              /\ pcS[s] = "done"
                 => (pcS'[s] = "done" /\ lastEmit'[s] = lastEmit[s]) ]_vars
    /\ \A s \in Sessions :
          (Open(s) /\ ~camera_active) ~> (pcS[s] = "done" \/ camera_active)

\* C14: a stop() issued while the flag is down leaves the flag down, starts
\* and ends no thread and leaves the slot as it is; every stop(), whatever
\* the state, gives the same "stopped" answer.
C14_StopIdempotent ==
    [][ webcam_stop
        => /\ lastCtl' = "stopped"
           /\ ~camera_active
              => /\ ~camera_active'
                 /\ pc' = pc
                 /\ cap_open' = cap_open
                 /\ current_frame' = current_frame ]_vars

C14_Witness == ~model_loaded /\ lastCtl = "stopped" /\ ~camera_active

\* C15: with no model loaded and the flag down, start() answers with the
\* error, starts no thread and leaves the flag down.
C15_StartNeedsModel ==
    [][ (StartCall /\ ~model_loaded /\ ~camera_active)
        => /\ lastCtl' = "error"
           /\ pc' = pc
           /\ ~camera_active' ]_vars

C15_Witness ==
    /\ ~model_loaded
    /\ lastCtl = "error"
    /\ ~camera_active
    /\ \A t \in Threads : pc[t] = "none"

\* what the detector returned, in its order: the boxes of the results that
\* have boxes, result after result
BoxCount(rs, i) == IF rs[i].has THEN Len(rs[i].boxes) ELSE 0

RECURSIVE Before(_, _)
Before(rs, i) == IF i = 1 THEN 0 ELSE Before(rs, i - 1) + BoxCount(rs, i - 1)

\* C16: the answer of process_detection has success = true, count equal to
\* the number of detections, one detection for each box the detector
\* returned and in the detector's order, and the text "Aucun objet détecté"
\* exactly when there is no detection.
C16_DetectionResponse ==
    response # NoResponse
    => LET d == response.detections
       IN  /\ response.success
           /\ response.count = Len(d)
           /\ Len(d) = Before(results, Len(results) + 1)
           /\ \A i \in 1..Len(results) : \A j \in 1..BoxCount(results, i) :
                  /\ d[Before(results, i) + j].class_id = results[i].boxes[j].cls
                  /\ d[Before(results, i) + j].confidence
                        = results[i].boxes[j].conf
           /\ (response.message.text = "Aucun objet détecté") <=> (d = << >>)

C16_Witness ==
    /\ response.success
    /\ Len(results) = 2
    /\ ~results[1].has
    /\ response.count = 2
    /\ response.detections[1].class_id # response.detections[2].class_id

\* C17: after a stop() that no start() has followed, a capture loop
\* publishes only to finish the pass it was in at the stop(), and the next
\* time it is at the head of its loop (line 201) it leaves: at most one
\* further publish for each loop.
C17_BoundedStop ==
    [][ lastCtl = "stopped"
        => \A t \in Threads :
              /\ CapPublish(t) => (t \in stopReq /\ pc'[t] = "test")
              /\ (pc[t] = "test" /\ pc'[t] # "test")
                 => (pc'[t] = "none" /\ current_frame' = current_frame) ]_vars

C17_Witness ==
    /\ lastCtl = "stopped"
    /\ \E t \in stopReq : pc[t] = "write"

\* C18: every frame a capture loop publishes was processed with the
\* confidence given to the start() that created the loop, which the loop
\* keeps as long as it lives; a start() answered "already_active" changes
\* no confidence and nothing else of the pipeline.
C18_ConfidenceBound ==
    [][ /\ \A c \in Confidences :
              (webcam_start(c, MaxThreads) /\ lastCtl' = "started")
              => conf'[NewThread(MaxThreads)] = c
        /\ \A t \in Threads :
              /\ (pc[t] # "none" /\ pc'[t] # "none") => conf'[t] = conf[t]
              /\ CapPublish(t) => current_frame'.conf = conf[t]
        /\ (StartCall /\ camera_active)
           => /\ lastCtl' = "already_active"
              /\ UNCHANGED << camera_active, current_frame, camera_lock, pc,
                              conf, frame, cap_open, capSeq >> ]_vars

C18_Witness ==
    /\ lastCtl = "already_active"
    /\ current_frame.conf = 9
    /\ \E t \in Threads : pc[t] = "test" /\ conf[t] = 9

TypeOK ==
    /\ camera_active \in BOOLEAN
    /\ capSeq \in 0..MaxFrames
    /\ current_frame.gen \in 0..MaxFrames
    /\ cap_open \subseteq Threads
    /\ stopReq \subseteq Alive
====
